---- MODULE Spec2Model ----
(***************************************************************************)
(* Model of awss3/s3_bucket.go: the S3Bucket operations Describe, Create   *)
(* and Delete as sequences of blocking backend calls.  One action is one backend call *)
(* together with all the code that runs between its return and the next    *)
(* call (or the operation's return).  The backend's answers are chosen     *)
(* nondeterministically.                                                   *)
(*                                                                         *)
(* Deviations from the text of the source, all of them abstractions of     *)
(* values the code never branches on:                                      *)
(*   - Tags, ObjectOwnership and the statements' Resource lists are not    *)
(*     represented;                                                        *)
(*   - a Policy string is represented by what the code's two readers make  *)
(*     of it: the result of json.Unmarshal (a syntax error, or the list of *)
(*     statements) and the token sequence text/template sees;              *)
(*   - the client is the SDK client s3.S3, as the type assertion in        *)
(*     deleteBucketContents requires.                                      *)
(***************************************************************************)
EXTENDS Naturals, Sequences, FiniteSets, TLC

VARIABLES
    pc,              \* position of the (single, synchronous) caller
    op,              \* the operation in progress: "none", "Describe", "Create", "Delete"
    partition,       \* argument of Describe
    locationConstraint, \* getLocationOutput.LocationConstraint
    details,         \* the BucketDetails Describe returned
    bucketName,      \* argument of Create / Delete
    bucketDetails,   \* argument of Create
    deleteObjects,   \* argument of Delete
    location,        \* createBucketOutput.Location
    putPolicyInput,  \* local of putBucketPolicyWithRetries
    retries,         \* the local "retries" of each of the two loops
    isDeleted,       \* local of checkDeletePublicAccessBlock
    returned,        \* return values of the two sub-procedures of Create
    result,          \* what the operation returned to its caller
    infoLog,         \* logger.Info messages (the give-up messages)
    calls,           \* history: backend calls issued, in order, with inputs
    replies,         \* history: the set of (call, answer) pairs received
    lastReply        \* history: the answer to the latest backend call

vars == <<pc, op, partition, locationConstraint, details, bucketName, bucketDetails, deleteObjects, location,
          putPolicyInput, retries, isDeleted, returned, result, infoLog,
          calls, replies, lastReply>>

(***************************************************************************)
(* Bounds of the model.                                                    *)
(***************************************************************************)
MaxStatements == 2   \* statements in a policy document
MaxCauses == 2       \* nested causes in a batch aggregate error

SeqUpTo(S, n) == UNION {[1..k -> S] : k \in 0..n}

(***************************************************************************)
(* Errors.  kind: "nil" (no error), "plain" (an error that is not an       *)
(* awserr.Error), "aws" (awserr.Error with a code), "batch": an           *)
(* s3manager.BatchError, whose OrigErr() is the list of causes (a cause    *)
(* is represented by its OrigErr field), "pending" (no value yet).         *)
(***************************************************************************)
MkErr(k, c, m, cs) == [kind |-> k, code |-> c, msg |-> m, causes |-> cs]
Nil == MkErr("nil", "", "", <<>>)
Pending == MkErr("pending", "", "", <<>>)
Plain(m) == MkErr("plain", "", m, <<>>)
Aws(c) == MkErr("aws", c, "", <<>>)
Batch(cs) == MkErr("batch", "BatchedDeleteIncomplete", "", cs)

Codes == {"AccessDenied", "NoSuchPublicAccessBlockConfiguration",
          "NoSuchBucket", "InternalError"}
\* what a single backend call may answer
CallErrs == {Nil, Plain("connection reset")} \cup {Aws(c) : c \in Codes}

\* errors.New(awsErr.Code() + ": " + awsErr.Message())
Flatten(e) == IF e.kind \in {"aws", "batch"} THEN Plain(e.code \o ": ") ELSE e

(***************************************************************************)
(* Inputs of Create.                                                       *)
(***************************************************************************)
BucketNames == {"my-bucket"}
NilString == "<nil>"
Locations == {NilString, "/my-bucket"}
StringValue(p) == IF p = NilString THEN "" ELSE p

Stmt(e, p, a) == [Effect |-> e, Principal |-> p, Action |-> a]
StatementPool ==
    { Stmt("Allow", "*", <<"s3:GetObject">>),
      Stmt("Allow", "*", <<"s3:PutObject">>),
      Stmt("Allow", "*", <<"s3:GetObject", "s3:PutObject">>),
      Stmt("Allow", "*", <<>>),
      Stmt("Deny", "*", <<"s3:GetObject">>),
      Stmt("Allow", "arn:aws:iam::1:root", <<"s3:GetObject">>) }

\* template texts: "{{" is an unclosed action (parse error), "{{.Bogus}}"
\* names a field BucketDetails does not have (execution error)
Templates == { <<"lit">>, <<"lit", "{{.BucketName}}", "lit">>,
               <<"lit", "{{">>, <<"{{.Bogus}}", "lit">> }

MkPolicy(e, j, s, t) == [empty |-> e, json |-> j, Statement |-> s, tmpl |-> t]
EmptyPolicy == MkPolicy(TRUE, "ok", <<>>, <<>>)
Policies ==
    {EmptyPolicy}
    \cup {MkPolicy(FALSE, "syntax error", <<>>, <<"lit">>)}
    \cup {MkPolicy(FALSE, "ok", s, t) :
              s \in SeqUpTo(StatementPool, MaxStatements), t \in Templates}

\* Encryption strings: empty, a valid configuration document, a malformed one
Encryptions == {"", "{\"Rules\":[]}", "{"}

\* the caller's BucketName field is unrelated to the bucketName argument
BucketDetailsValues ==
    [BucketName : {"", "stale-name"}, Policy : Policies, Encryption : Encryptions]

\* BucketDetails{}, as far as Describe fills it in
NoDetails == [BucketName |-> "", Region |-> "", ARN |-> "", FIPSEndpoint |-> ""]
NoResult == [location |-> "", err |-> Pending]
NoInput == [Bucket |-> "", Policy |-> <<>>]
NoReply == [name |-> "", err |-> Pending]
NothingReturned ==
    [checkDeletePublicAccessBlock |-> Pending, putBucketPolicyWithRetries |-> Pending]
NoRetries ==
    [checkDeletePublicAccessBlock |-> 0, putBucketPolicyWithRetries |-> 0]

Init ==
    /\ pc = "idle"
    /\ op = "none"
    /\ partition = ""
    /\ locationConstraint = NilString
    /\ details = NoDetails
    /\ bucketName = ""
    /\ bucketDetails = [BucketName |-> "", Policy |-> EmptyPolicy, Encryption |-> ""]
    /\ deleteObjects = FALSE
    /\ location = NilString
    /\ putPolicyInput = NoInput
    /\ retries = NoRetries
    /\ isDeleted = FALSE
    /\ returned = NothingReturned
    /\ result = NoResult
    /\ infoLog = <<>>
    /\ calls = <<>>
    /\ replies = {}
    /\ lastReply = NoReply

(***************************************************************************)
(* History bookkeeping: a backend call, its input and its answer.          *)
(***************************************************************************)
Call(name, input, ans) ==
    /\ calls' = Append(calls, [name |-> name, input |-> input])
    /\ replies' = replies \cup {[name |-> name, err |-> ans]}
    /\ lastReply' = [name |-> name, err |-> ans]

BucketInput(bn) == [Bucket |-> bn, Policy |-> <<>>]

(***************************************************************************)
(* checkDeletePublicAccessBlock, up to the DeletePublicAccessBlock call.   *)
(***************************************************************************)
publicAccessPolicy == Stmt("Allow", "*", <<"s3:GetObject">>)

\* slices.Equal: same length and equal elements at equal positions
slicesEqual(a, b) ==
    /\ Len(a) = Len(b)
    /\ \A i \in 1..Len(a) : a[i] = b[i]

\* variant: the closure without the comparison of the Action lists
isPublicAccessStatementAnyAction(statement) ==
    /\ statement.Effect = publicAccessPolicy.Effect
    /\ statement.Principal = publicAccessPolicy.Principal

\* the closure handed to slices.ContainsFunc
isPublicAccessStatement(statement) ==
    /\ statement.Effect = publicAccessPolicy.Effect
    /\ statement.Principal = publicAccessPolicy.Principal
    /\ slicesEqual(statement.Action, publicAccessPolicy.Action)

\* slices.ContainsFunc(policy.Statement, ...)
containsPublicAccessStatement(statements) ==
    \E i \in 1..Len(statements) : isPublicAccessStatement(statements[i])

\* variant: the statement-count check off by one
tooManyStatementsOffByOne(statements) == Len(statements) > 2
tooManyStatements(statements) == Len(statements) > 1

JsonSyntaxError == Plain("json: syntax error")
StatementCountError(n) == Plain("expected 1 policy statement, got " \o ToString(n))

\* [call: whether DeletePublicAccessBlock is to be issued, err: the error
\*  returned when it is not]
checkPolicy(bd) ==
    IF bd.Policy.empty THEN [call |-> FALSE, err |-> Nil]
    ELSE IF bd.Policy.json # "ok" THEN [call |-> FALSE, err |-> JsonSyntaxError]
    ELSE IF tooManyStatements(bd.Policy.Statement)
         THEN [call |-> FALSE, err |-> StatementCountError(Len(bd.Policy.Statement))]
    ELSE IF containsPublicAccessStatement(bd.Policy.Statement)
         THEN [call |-> TRUE, err |-> Nil]
    ELSE [call |-> FALSE, err |-> Nil]

(***************************************************************************)
(* putBucketPolicyWithRetries, up to the first PutBucketPolicy call.       *)
(***************************************************************************)
TemplateParseError == Plain("template: policy: unclosed action")
TemplateExecError == Plain("template: policy: can't evaluate field Bogus")

templateParses(tmpl) == \A i \in 1..Len(tmpl) : tmpl[i] # "{{"
templateExecutes(tmpl) == \A i \in 1..Len(tmpl) : tmpl[i] # "{{.Bogus}}"

\* tmpl.Execute(&policy, bucketDetails): every placeholder is replaced by the
\* field's value, everything else is copied
renderPolicy(tmpl, bd) ==
    [i \in 1..Len(tmpl) |->
        IF tmpl[i] = "{{.BucketName}}" THEN bd.BucketName ELSE tmpl[i]]

\* variant: the policy is applied without the test for an empty one
preparePutPolicyAlways(bd, bn) ==
    [call |-> TRUE, err |-> Nil,
     input |-> [Bucket |-> bn, Policy |-> renderPolicy(bd.Policy.tmpl, bd)]]

\* [call: whether PutBucketPolicy is to be issued, err: the error returned
\*  when it is not, input: putPolicyInput]
preparePutPolicy(bd, bn) ==
    LET stamped == [bd EXCEPT !.BucketName = bn] IN
    IF bd.Policy.empty THEN [call |-> FALSE, err |-> Nil, input |-> NoInput]
    ELSE IF ~templateParses(bd.Policy.tmpl)
         THEN [call |-> FALSE, err |-> TemplateParseError, input |-> NoInput]
    ELSE IF ~templateExecutes(bd.Policy.tmpl)
         THEN [call |-> FALSE, err |-> TemplateExecError, input |-> NoInput]
    ELSE [call |-> TRUE, err |-> Nil,
          input |-> [Bucket |-> stamped.BucketName,
                     Policy |-> renderPolicy(bd.Policy.tmpl, stamped)]]

(***************************************************************************)
(* Returning from Create and moving from one sub-procedure to the next.    *)
(***************************************************************************)
\* variant: a failure is followed by the deletion of the bucket
FailWithRollback(e) ==
    /\ pc' = "DeleteBucket"
    /\ result' = [location |-> "", err |-> e]
    /\ UNCHANGED <<returned, putPolicyInput>>

\* Create returns e (a failure before the two sub-procedures)
Fail(e) ==
    /\ pc' = "done"
    /\ result' = [location |-> "", err |-> e]
    /\ UNCHANGED <<returned, putPolicyInput>>

\* Create returns after checkDeletePublicAccessBlock returned rret and
\* putBucketPolicyWithRetries returned pret (Pending: it was not called)
CreateReturns(rret, pret) ==
    /\ pc' = "done"
    /\ returned' = [checkDeletePublicAccessBlock |-> rret,
                    putBucketPolicyWithRetries |-> pret]
    /\ result' = IF rret # Nil THEN [location |-> "", err |-> rret]
                 ELSE IF pret # Nil THEN [location |-> "", err |-> pret]
                 ELSE [location |-> StringValue(location), err |-> Nil]

\* checkDeletePublicAccessBlock returns rerr
AfterReconciler(rerr) ==
    IF rerr # Nil
    THEN CreateReturns(rerr, Pending) /\ UNCHANGED putPolicyInput
    ELSE LET p == preparePutPolicy(bucketDetails, bucketName) IN
         IF p.call
         THEN /\ pc' = "PutBucketPolicy"
              /\ putPolicyInput' = p.input
              /\ returned' = [returned EXCEPT !.checkDeletePublicAccessBlock = Nil]
              /\ UNCHANGED result
         ELSE CreateReturns(Nil, p.err) /\ UNCHANGED putPolicyInput

\* Create calls checkDeletePublicAccessBlock
EnterReconciler ==
    LET c == checkPolicy(bucketDetails) IN
    IF c.call
    THEN /\ pc' = "DeletePublicAccessBlock"
         /\ UNCHANGED <<returned, result, putPolicyInput>>
    ELSE AfterReconciler(c.err)

(***************************************************************************)
(* Create.                                                                 *)
(***************************************************************************)
Create(bn, bd) ==
    /\ pc = "idle"
    /\ op' = "Create"
    /\ bucketName' = bn
    /\ bucketDetails' = bd
    /\ pc' = "CreateBucket"
    /\ UNCHANGED <<deleteObjects, location, putPolicyInput, retries, isDeleted,
                   returned, result, infoLog, calls, replies, lastReply>>
    /\ UNCHANGED <<partition, locationConstraint, details>>

CreateBucket(ans, loc) ==
    /\ pc = "CreateBucket"
    /\ Call("CreateBucket", BucketInput(bucketName), ans)
    /\ IF ans # Nil
       THEN /\ loc = NilString
            /\ Fail(Flatten(ans))
            /\ UNCHANGED location
       ELSE /\ location' = loc
            /\ pc' = "PutBucketTagging"
            /\ UNCHANGED <<returned, result, putPolicyInput>>
    /\ UNCHANGED <<op, bucketName, bucketDetails, deleteObjects, retries,
                   isDeleted, infoLog>>
    /\ UNCHANGED <<partition, locationConstraint, details>>

encryptionParses(e) == e = "{\"Rules\":[]}"

PutBucketTagging(ans) ==
    /\ pc = "PutBucketTagging"
    /\ Call("PutBucketTagging", BucketInput(bucketName), ans)
    /\ IF ans # Nil THEN Fail(ans)
       ELSE IF Len(bucketDetails.Encryption) > 0
            THEN IF encryptionParses(bucketDetails.Encryption)
                 THEN /\ pc' = "PutBucketEncryption"
                      /\ UNCHANGED <<returned, result, putPolicyInput>>
                 ELSE Fail(JsonSyntaxError)
            ELSE EnterReconciler
    /\ UNCHANGED <<op, bucketName, bucketDetails, deleteObjects, location,
                   retries, isDeleted, infoLog>>
    /\ UNCHANGED <<partition, locationConstraint, details>>

PutBucketEncryption(ans) ==
    /\ pc = "PutBucketEncryption"
    /\ Call("PutBucketEncryption", BucketInput(bucketName), ans)
    /\ IF ans # Nil THEN Fail(Flatten(ans)) ELSE EnterReconciler
    /\ UNCHANGED <<op, bucketName, bucketDetails, deleteObjects, location,
                   retries, isDeleted, infoLog>>
    /\ UNCHANGED <<partition, locationConstraint, details>>

(***************************************************************************)
(* checkDeletePublicAccessBlock: the deletion and the confirmation poll.   *)
(***************************************************************************)
maxRetriesPoll == 10

\* [isDeleted, err] as returned for the answer ans of GetPublicAccessBlock
checkIsPublicAccessBlockDeleted(ans) ==
    IF ans.kind \in {"aws", "batch"}
    THEN IF ans.code = "NoSuchPublicAccessBlockConfiguration"
         THEN [isDeleted |-> TRUE, err |-> Nil]
         ELSE [isDeleted |-> FALSE, err |-> ans]
    ELSE [isDeleted |-> FALSE, err |-> Nil]

\* variant: the poll loop's bound off by one
pollAgainInclusive(deleted, n) == ~deleted /\ n <= maxRetriesPoll

\* the condition of the poll loop
pollAgain(deleted, n) == ~deleted /\ n < maxRetriesPoll

\* the condition of the give-up message after the poll loop
pollGaveUp(n) == n = maxRetriesPoll

\* variant: an unconfirmed deletion is returned as an error
pollOutcomeFatal(deleted, n) ==
    IF deleted THEN Nil ELSE Plain("could not verify that public access block was deleted")

\* what checkDeletePublicAccessBlock returns once the loop is left: nil,
\* confirmed or not
pollOutcome(deleted, n) == Nil

PollGiveUpMessage(bn, n) ==
    [msg |-> "could not verify that public access block was deleted",
     bucket |-> bn, retries |-> n]

DeletePublicAccessBlock(ans) ==
    /\ pc = "DeletePublicAccessBlock"
    /\ Call("DeletePublicAccessBlock", BucketInput(bucketName), ans)
    /\ IF ans # Nil
       THEN AfterReconciler(ans)
       ELSE /\ pc' = "GetPublicAccessBlock"
            /\ UNCHANGED <<returned, result, putPolicyInput>>
    /\ UNCHANGED <<op, bucketName, bucketDetails, deleteObjects, location,
                   retries, isDeleted, infoLog>>
    /\ UNCHANGED <<partition, locationConstraint, details>>

\* after a probe answered r with n retries made: leave with the error, go
\* round the loop again, or leave the loop
AfterProbe(r, n) ==
    /\ isDeleted' = r.isDeleted
    /\ retries' = [retries EXCEPT !.checkDeletePublicAccessBlock = n]
    /\ IF r.err # Nil
       THEN AfterReconciler(r.err) /\ UNCHANGED infoLog
       ELSE IF pollAgain(r.isDeleted, n)
            THEN /\ pc' = "GetPublicAccessBlockRetry"
                 /\ UNCHANGED <<returned, result, putPolicyInput, infoLog>>
            ELSE /\ infoLog' = IF pollGaveUp(n)
                               THEN Append(infoLog, PollGiveUpMessage(bucketName, n))
                               ELSE infoLog
                 /\ AfterReconciler(pollOutcome(r.isDeleted, n))

\* the probe right after the deletion
GetPublicAccessBlock(ans) ==
    /\ pc = "GetPublicAccessBlock"
    /\ Call("GetPublicAccessBlock", BucketInput(bucketName), ans)
    /\ AfterProbe(checkIsPublicAccessBlockDeleted(ans), 0)
    /\ UNCHANGED <<op, bucketName, bucketDetails, deleteObjects, location>>
    /\ UNCHANGED <<partition, locationConstraint, details>>

\* one iteration of the poll loop
GetPublicAccessBlockRetry(ans) ==
    /\ pc = "GetPublicAccessBlockRetry"
    /\ Call("GetPublicAccessBlock", BucketInput(bucketName), ans)
    /\ AfterProbe(checkIsPublicAccessBlockDeleted(ans),
                  retries.checkDeletePublicAccessBlock + 1)
    /\ UNCHANGED <<op, bucketName, bucketDetails, deleteObjects, location>>
    /\ UNCHANGED <<partition, locationConstraint, details>>

(***************************************************************************)
(* putBucketPolicyWithRetries: the call and the retry loop.                *)
(***************************************************************************)
maxRetriesPut == 10

\* variant: every coded error is taken for an access-denied one
isAccessDeniedExceptionAnyCode(e) == e.kind \in {"aws", "batch"}

isAccessDeniedException(e) ==
    IF e.kind \in {"aws", "batch"} THEN e.code = "AccessDenied" ELSE FALSE

\* variant: the retry loop's bound off by one
retryAgainInclusive(e, n) == e # Nil /\ n <= maxRetriesPut

\* the condition of the retry loop
retryAgain(e, n) == e # Nil /\ n < maxRetriesPut

\* the condition of the give-up message after the retry loop
putGaveUp(n) == n = maxRetriesPut

\* variant: giving up is logged and then reported as success
putOutcomeSwallowed(e, n) == IF n = maxRetriesPut THEN Nil ELSE e

\* what putBucketPolicyWithRetries returns once the loop is left: the
\* answer to the latest call
putOutcome(e, n) == e

PutGiveUpMessage(bn, n) ==
    [msg |-> "could not put policy", bucket |-> bn, retries |-> n]

\* the head of the retry loop, with e the answer to the latest call and n the
\* retries made
AfterPut(e, n) ==
    IF retryAgain(e, n)
    THEN /\ retries' = [retries EXCEPT !.putBucketPolicyWithRetries = n + 1]
         /\ UNCHANGED <<infoLog, putPolicyInput>>
         /\ IF ~isAccessDeniedException(e)
            THEN CreateReturns(returned.checkDeletePublicAccessBlock, e)
            ELSE /\ pc' = "PutBucketPolicyRetry"
                 /\ UNCHANGED <<returned, result>>
    ELSE /\ retries' = [retries EXCEPT !.putBucketPolicyWithRetries = n]
         /\ infoLog' = IF putGaveUp(n)
                       THEN Append(infoLog, PutGiveUpMessage(bucketName, n))
                       ELSE infoLog
         /\ UNCHANGED putPolicyInput
         /\ CreateReturns(returned.checkDeletePublicAccessBlock, putOutcome(e, n))

\* the input a PutBucketPolicy call sends
policyCallInput == putPolicyInput

PutBucketPolicy(ans) ==
    /\ pc = "PutBucketPolicy"
    /\ Call("PutBucketPolicy", policyCallInput, ans)
    /\ AfterPut(ans, 0)
    /\ UNCHANGED <<op, bucketName, bucketDetails, deleteObjects, location,
                   isDeleted>>
    /\ UNCHANGED <<partition, locationConstraint, details>>

PutBucketPolicyRetry(ans) ==
    /\ pc = "PutBucketPolicyRetry"
    /\ Call("PutBucketPolicy", policyCallInput, ans)
    /\ AfterPut(ans, retries.putBucketPolicyWithRetries)
    /\ UNCHANGED <<op, bucketName, bucketDetails, deleteObjects, location,
                   isDeleted>>
    /\ UNCHANGED <<partition, locationConstraint, details>>

(***************************************************************************)
(* Delete.                                                                 *)
(***************************************************************************)
\* what the bulk deletion or DeleteBucket may answer: nothing, a plain or a
\* coded error, a batch error over up to MaxCauses such causes, or a batch
\* error whose single cause is itself such a batch error
CauseErrs == {Nil, Plain("connection reset"), Aws("NoSuchBucket"), Aws("AccessDenied")}
BatchErrs == {Batch(cs) : cs \in SeqUpTo(CauseErrs, MaxCauses)}
DeleteErrs == CauseErrs \cup BatchErrs \cup {Batch(<<b>>) : b \in BatchErrs}

\* variant: a batch error is never taken for a missing bucket
isBatchDeleteNoBucketErrorNever(batchErr) ==
    IF Len(batchErr.causes) = 0 THEN "panic" ELSE "false"

\* "true", "false", or "panic" (index out of range at origBatchErrs[0])
RECURSIVE isNoSuchBucketError(_), isBatchDeleteNoBucketError(_)
\* variant: the classification without the test for more than one cause
isBatchDeleteNoBucketErrorFirstCause(batchErr) ==
    IF Len(batchErr.causes) = 0 THEN "panic"
    ELSE IF batchErr.causes[1] # Nil THEN isNoSuchBucketError(batchErr.causes[1])
    ELSE "false"

isBatchDeleteNoBucketError(batchErr) ==
    LET origBatchErrs == batchErr.causes IN
    IF Len(origBatchErrs) > 1 THEN "false"
    ELSE IF Len(origBatchErrs) = 0 THEN "panic"
    ELSE IF origBatchErrs[1] # Nil THEN isNoSuchBucketError(origBatchErrs[1])
    ELSE "false"

isNoSuchBucketError(err) ==
    IF err.kind \in {"aws", "batch"}
    THEN IF err.kind = "batch" THEN isBatchDeleteNoBucketError(err)
         ELSE IF err.code = "NoSuchBucket" THEN "true" ELSE "false"
    ELSE "false"

\* [panic: the classification crashed, err: the error handed on otherwise]
handleDeleteError(err) ==
    LET c == isNoSuchBucketError(err) IN
    [panic |-> c = "panic", err |-> IF c = "true" THEN Nil ELSE err]

Delete(bn, del) ==
    /\ pc = "idle"
    /\ op' = "Delete"
    /\ bucketName' = bn
    /\ deleteObjects' = del
    /\ pc' = IF del THEN "deleteBucketContents" ELSE "DeleteBucket"
    /\ UNCHANGED <<bucketDetails, location, putPolicyInput, retries, isDeleted,
                   returned, result, infoLog, calls, replies, lastReply>>
    /\ UNCHANGED <<partition, locationConstraint, details>>

\* the bulk deletion of the bucket's objects and the handling of its error
deleteBucketContents(ans) ==
    /\ pc = "deleteBucketContents"
    /\ Call("BatchDelete", BucketInput(bucketName), ans)
    /\ LET h == IF ans # Nil THEN handleDeleteError(ans)
                ELSE [panic |-> FALSE, err |-> Nil] IN
       IF h.panic THEN pc' = "panic" /\ UNCHANGED result
       ELSE IF h.err # Nil
            THEN pc' = "done" /\ result' = [location |-> "", err |-> h.err]
            ELSE pc' = "DeleteBucket" /\ UNCHANGED result
    /\ UNCHANGED <<op, bucketName, bucketDetails, deleteObjects, location,
                   putPolicyInput, retries, isDeleted, returned, infoLog>>
    /\ UNCHANGED <<partition, locationConstraint, details>>

DeleteBucket(ans) ==
    /\ pc = "DeleteBucket"
    /\ Call("DeleteBucket", BucketInput(bucketName), ans)
    /\ LET h == IF ans # Nil THEN handleDeleteError(ans)
                ELSE [panic |-> FALSE, err |-> Nil] IN
       IF h.panic THEN pc' = "panic" /\ UNCHANGED result
       ELSE pc' = "done" /\ result' = [location |-> "", err |-> h.err]
    /\ UNCHANGED <<op, bucketName, bucketDetails, deleteObjects, location,
                   putPolicyInput, retries, isDeleted, returned, infoLog>>
    /\ UNCHANGED <<partition, locationConstraint, details>>

(***************************************************************************)
(* Describe.                                                               *)
(***************************************************************************)
Partitions == {"aws", "aws-us-gov"}
\* what GetBucketLocation may report: no value, an empty one, a region
LocationConstraints == {NilString, "", "eu-west-1"}

buildBucketDetails(bn, region, part) ==
    [BucketName |-> bn,
     Region |-> region,
     ARN |-> "arn:" \o part \o ":s3:::" \o bn,
     FIPSEndpoint |-> "s3-fips." \o region \o ".amazonaws.com"]

\* the region Describe resolves the reported location constraint to
resolveRegion(lc) == IF lc = NilString THEN "us-east-1" ELSE lc

Describe(bn, part) ==
    /\ pc = "idle"
    /\ op' = "Describe"
    /\ bucketName' = bn
    /\ partition' = part
    /\ pc' = "GetBucketLocation"
    /\ UNCHANGED <<locationConstraint, details, bucketDetails, deleteObjects,
                   location, putPolicyInput, retries, isDeleted, returned,
                   result, infoLog, calls, replies, lastReply>>

GetBucketLocation(ans, lc) ==
    /\ pc = "GetBucketLocation"
    /\ Call("GetBucketLocation", BucketInput(bucketName), ans)
    /\ pc' = "done"
    /\ IF ans # Nil
       THEN /\ lc = NilString
            /\ result' = [location |-> "", err |-> Flatten(ans)]
            /\ UNCHANGED <<locationConstraint, details>>
       ELSE /\ locationConstraint' = lc
            /\ details' = buildBucketDetails(bucketName, resolveRegion(lc), partition)
            /\ result' = [location |-> "", err |-> Nil]
    /\ UNCHANGED <<op, partition, bucketName, bucketDetails, deleteObjects,
                   location, putPolicyInput, retries, isDeleted, returned, infoLog>>

(***************************************************************************)
(* The specification.                                                      *)
(***************************************************************************)
Next ==
    \/ \E bn \in BucketNames, part \in Partitions : Describe(bn, part)
    \/ \E ans \in CallErrs, lc \in LocationConstraints : GetBucketLocation(ans, lc)
    \/ pc = "idle" /\ \E bn \in BucketNames, bd \in BucketDetailsValues : Create(bn, bd)
    \/ \E ans \in CallErrs, loc \in Locations : CreateBucket(ans, loc)
    \/ \E ans \in CallErrs : PutBucketTagging(ans)
    \/ \E ans \in CallErrs : PutBucketEncryption(ans)
    \/ \E ans \in CallErrs : DeletePublicAccessBlock(ans)
    \/ \E ans \in CallErrs : GetPublicAccessBlock(ans)
    \/ \E ans \in CallErrs : GetPublicAccessBlockRetry(ans)
    \/ \E ans \in CallErrs : PutBucketPolicy(ans)
    \/ \E ans \in CallErrs : PutBucketPolicyRetry(ans)
    \/ \E bn \in BucketNames, del \in BOOLEAN : Delete(bn, del)
    \/ pc = "deleteBucketContents" /\ \E ans \in DeleteErrs : deleteBucketContents(ans)
    \/ pc = "DeleteBucket" /\ \E ans \in DeleteErrs : DeleteBucket(ans)

Spec == Init /\ [][Next]_vars

\* Every backend call returns and the program then runs on to its next call
\* or to its return: no step that can be taken is put off for ever.
LiveSpec == Init /\ [][Next]_vars /\ WF_vars(Next)

(***************************************************************************)
(* Vocabulary of the properties.                                           *)
(***************************************************************************)
CallCount(n) == Cardinality({i \in DOMAIN calls : calls[i].name = n})
Issued(n) == \E i \in DOMAIN calls : calls[i].name = n
Answered(n, e) == [name |-> n, err |-> e] \in replies

PolicyParsed ==
    op = "Create" /\ ~bucketDetails.Policy.empty /\ bucketDetails.Policy.json = "ok"
StatementCount == Len(bucketDetails.Policy.Statement)
EncryptionGiven == bucketDetails.Encryption # ""
\* CreateBucket, PutBucketTagging and the encryption step have succeeded
FirstStepsSucceeded ==
    /\ Answered("CreateBucket", Nil)
    /\ Answered("PutBucketTagging", Nil)
    /\ EncryptionGiven => Answered("PutBucketEncryption", Nil)
AccessDeniedCoded(e) == e.kind = "aws" /\ e.code = "AccessDenied"
ConfirmsDeletion(e) ==
    e.kind = "aws" /\ e.code = "NoSuchPublicAccessBlockConfiguration"

(***************************************************************************)
(* C1 as stated: a Create whose policy document holds two or more          *)
(* statements never issues CreateBucket, PutBucketTagging,                 *)
(* PutBucketEncryption, DeletePublicAccessBlock or PutBucketPolicy.        *)
(***************************************************************************)
C1_NoCallWithManyStatements ==
    (PolicyParsed /\ StatementCount >= 2) =>
        \A n \in {"CreateBucket", "PutBucketTagging", "PutBucketEncryption",
                  "DeletePublicAccessBlock", "PutBucketPolicy"} : ~Issued(n)

(***************************************************************************)
(* C1 as amended: a Create whose policy document holds two or more         *)
(* statements always fails and never issues DeletePublicAccessBlock,       *)
(* GetPublicAccessBlock or PutBucketPolicy; the statement-count rejection  *)
(* is what it returns whenever the first steps succeed, and it is returned *)
(* only after CreateBucket, PutBucketTagging and (when Encryption is       *)
(* given) PutBucketEncryption were issued.                                 *)
(***************************************************************************)
C1_ManyStatementsRejectedAfterCreation ==
    (PolicyParsed /\ StatementCount >= 2) =>
        /\ \A n \in {"DeletePublicAccessBlock", "GetPublicAccessBlock",
                     "PutBucketPolicy"} : ~Issued(n)
        /\ pc = "done" => result.err # Nil /\ result.location = ""
        /\ (pc = "done" /\ FirstStepsSucceeded) =>
               result.err = StatementCountError(StatementCount)
        /\ result.err = StatementCountError(StatementCount) =>
               /\ calls[1].name = "CreateBucket"
               /\ calls[2].name = "PutBucketTagging"
               /\ Len(calls) = IF EncryptionGiven THEN 3 ELSE 2
               /\ EncryptionGiven => calls[3].name = "PutBucketEncryption"

C1_Witness ==
    /\ PolicyParsed /\ StatementCount = 2
    /\ \E i \in 1..2 : bucketDetails.Policy.Statement[i] = publicAccessPolicy
    /\ pc = "done"
    /\ result.err = StatementCountError(2)
    /\ Issued("PutBucketEncryption")

(***************************************************************************)
(* C2 as stated: the calls of a Create are issued in the order             *)
(* CreateBucket, PutBucketTagging, PutBucketEncryption (only when          *)
(* Encryption is non-empty), DeletePublicAccessBlock and then              *)
(* GetPublicAccessBlock probes (only for a public-read policy),            *)
(* PutBucketPolicy (only when Policy is non-empty), and no call of a later *)
(* step is issued once a call of an earlier step has failed.  The probe's  *)
(* answer NoSuchPublicAccessBlockConfiguration is the confirmation, not a  *)
(* failure.                                                                *)
(***************************************************************************)
Rank(n) ==
    CASE n = "CreateBucket" -> 1
      [] n = "PutBucketTagging" -> 2
      [] n = "PutBucketEncryption" -> 3
      [] n = "DeletePublicAccessBlock" -> 4
      [] n = "GetPublicAccessBlock" -> 5
      [] n = "PutBucketPolicy" -> 6
      [] OTHER -> 0
StepOf(n) == IF Rank(n) <= 4 THEN Rank(n) ELSE Rank(n) - 1
CallFailed(r) ==
    /\ r.err # Nil
    /\ ~(r.name = "GetPublicAccessBlock" /\ ConfirmsDeletion(r.err))
PublicReadPolicy ==
    PolicyParsed /\ StatementCount = 1
        /\ bucketDetails.Policy.Statement[1] = publicAccessPolicy

C2_CallsInOrder ==
    \A i, j \in DOMAIN calls :
        i < j => /\ Rank(calls[i].name) <= Rank(calls[j].name)
                 /\ Rank(calls[i].name) = Rank(calls[j].name) =>
                        calls[i].name \in {"GetPublicAccessBlock", "PutBucketPolicy"}
C2_StepsOnlyWhenAskedFor ==
    /\ \A i \in DOMAIN calls : Rank(calls[i].name) > 0
    /\ Len(calls) >= 1 => calls[1].name = "CreateBucket"
    /\ Len(calls) >= 2 => calls[2].name = "PutBucketTagging"
    /\ Issued("PutBucketEncryption") => EncryptionGiven
    /\ (Len(calls) >= 3 /\ EncryptionGiven) => calls[3].name = "PutBucketEncryption"
    /\ Issued("DeletePublicAccessBlock") => PublicReadPolicy
    /\ Issued("GetPublicAccessBlock") => Issued("DeletePublicAccessBlock")
    /\ Issued("PutBucketPolicy") => ~bucketDetails.Policy.empty
C2_NoLaterStepAfterFailure ==
    \A r \in replies : CallFailed(r) =>
        \A i \in DOMAIN calls : StepOf(calls[i].name) <= StepOf(r.name)

C2_OrderedSteps ==
    op = "Create" =>
        C2_CallsInOrder /\ C2_StepsOnlyWhenAskedFor /\ C2_NoLaterStepAfterFailure

(***************************************************************************)
(* C3: once CreateBucket, PutBucketTagging and the encryption step have    *)
(* succeeded, a Create whose single statement is exactly Allow, "*",       *)
(* ["s3:GetObject"] issues exactly one DeletePublicAccessBlock call (and   *)
(* never a second one); a Create whose single statement has another Action *)
(* list issues none.                                                       *)
(***************************************************************************)
C3_OneDeletionForPublicRead ==
    (PolicyParsed /\ StatementCount = 1) =>
        IF bucketDetails.Policy.Statement[1] = publicAccessPolicy
        THEN /\ CallCount("DeletePublicAccessBlock") <= 1
             /\ (FirstStepsSucceeded /\ pc # "DeletePublicAccessBlock") =>
                    CallCount("DeletePublicAccessBlock") = 1
        ELSE bucketDetails.Policy.Statement[1].Action # <<"s3:GetObject">> =>
                 CallCount("DeletePublicAccessBlock") = 0

C3_Witness ==
    /\ PublicReadPolicy
    /\ FirstStepsSucceeded
    /\ pc = "done"
    /\ CallCount("DeletePublicAccessBlock") = 1

(***************************************************************************)
(* C4 as stated: a Create makes at most 10 GetPublicAccessBlock probes,    *)
(* the one right after DeletePublicAccessBlock included.                   *)
(***************************************************************************)
C4_AtMostTenProbes == CallCount("GetPublicAccessBlock") <= 10

(***************************************************************************)
(* C4 as amended: a Create makes at most 11 GetPublicAccessBlock probes:   *)
(* the one right after DeletePublicAccessBlock and at most 10 retries.     *)
(***************************************************************************)
C4_AtMostElevenProbes ==
    /\ CallCount("GetPublicAccessBlock") <= maxRetriesPoll + 1
    /\ retries.checkDeletePublicAccessBlock <= maxRetriesPoll
    /\ CallCount("GetPublicAccessBlock") > 0 =>
           CallCount("GetPublicAccessBlock") = retries.checkDeletePublicAccessBlock + 1

C4_Witness ==
    /\ CallCount("GetPublicAccessBlock") = 11
    /\ retries.checkDeletePublicAccessBlock = 10

(***************************************************************************)
(* C5 as stated: when every probe of the poll answered successfully and    *)
(* the attempts are exhausted, checkDeletePublicAccessBlock has returned   *)
(* nil and Create goes on to issue PutBucketPolicy.                        *)
(***************************************************************************)
PollExhaustedUnconfirmed ==
    /\ op = "Create"
    /\ retries.checkDeletePublicAccessBlock = maxRetriesPoll
    /\ \A r \in replies : r.name = "GetPublicAccessBlock" => r.err = Nil
PutBucketPolicyIssuedOrNext == pc = "PutBucketPolicy" \/ Issued("PutBucketPolicy")

C5_ExhaustionThenPutBucketPolicy ==
    PollExhaustedUnconfirmed =>
        /\ returned.checkDeletePublicAccessBlock = Nil
        /\ PutBucketPolicyIssuedOrNext

(***************************************************************************)
(* C5 as amended: when every probe of the poll answered successfully and   *)
(* the attempts are exhausted, checkDeletePublicAccessBlock has returned   *)
(* nil, the give-up message is logged, and Create goes on to the policy    *)
(* step: it issues PutBucketPolicy if the policy template parses and       *)
(* executes, and otherwise returns the template's error without issuing    *)
(* PutBucketPolicy.                                                        *)
(***************************************************************************)
C5_ExhaustionIsNotFatal ==
    PollExhaustedUnconfirmed =>
        /\ returned.checkDeletePublicAccessBlock = Nil
        /\ \E i \in DOMAIN infoLog :
               infoLog[i] = PollGiveUpMessage(bucketName, maxRetriesPoll)
        /\ IF templateParses(bucketDetails.Policy.tmpl)
              /\ templateExecutes(bucketDetails.Policy.tmpl)
           THEN PutBucketPolicyIssuedOrNext
           ELSE /\ pc = "done"
                /\ ~Issued("PutBucketPolicy")
                /\ result.err \in {TemplateParseError, TemplateExecError}
                /\ result.err = returned.putBucketPolicyWithRetries

C5_Witness ==
    /\ PollExhaustedUnconfirmed
    /\ CallCount("GetPublicAccessBlock") = 11
    /\ Issued("PutBucketPolicy")
    /\ pc = "done"
    /\ result.err = Nil

(***************************************************************************)
(* C6 as stated: a Create makes at most 10 PutBucketPolicy attempts, the   *)
(* first call included.                                                    *)
(***************************************************************************)
C6_AtMostTenPuts == CallCount("PutBucketPolicy") <= 10

(***************************************************************************)
(* C6 as amended: a Create makes at most 11 PutBucketPolicy attempts: the  *)
(* first call and at most 10 retries, whatever the backend answers.        *)
(***************************************************************************)
C6_AtMostElevenPuts ==
    /\ CallCount("PutBucketPolicy") <= maxRetriesPut + 1
    /\ retries.putBucketPolicyWithRetries <= maxRetriesPut

C6_Witness ==
    /\ CallCount("PutBucketPolicy") = 11
    /\ retries.putBucketPolicyWithRetries = 10

(***************************************************************************)
(* C7 as stated: once the 10th PutBucketPolicy attempt has failed with an  *)
(* access-denied error, a Create that returns returns an error and an      *)
(* empty location, and putBucketPolicyWithRetries has returned an error.   *)
(***************************************************************************)
TenthPutDenied ==
    /\ CallCount("PutBucketPolicy") = 10
    /\ lastReply.name = "PutBucketPolicy"
    /\ AccessDeniedCoded(lastReply.err)

C7_FailureAfterTenthAttempt ==
    [][TenthPutDenied =>
          (pc' = "done" =>
              /\ returned'.putBucketPolicyWithRetries # Nil
              /\ result'.err # Nil
              /\ result'.location = "")]_vars

(***************************************************************************)
(* C7 as amended: when the 11th PutBucketPolicy attempt (the first call    *)
(* plus 10 retries) has failed with an access-denied error,                *)
(* putBucketPolicyWithRetries returns that error and Create returns it     *)
(* with an empty location.                                                 *)
(***************************************************************************)
EleventhPutDenied ==
    /\ CallCount("PutBucketPolicy") = 11
    /\ lastReply.name = "PutBucketPolicy"
    /\ AccessDeniedCoded(lastReply.err)

C7_FailureAfterEleventhAttempt ==
    EleventhPutDenied =>
        /\ pc = "done"
        /\ returned.putBucketPolicyWithRetries = lastReply.err
        /\ result = [location |-> "", err |-> lastReply.err]

C7_Witness == EleventhPutDenied /\ pc = "done" /\ location # NilString

(***************************************************************************)
(* C8: PutBucketPolicy is called again only after an answer coded          *)
(* AccessDenied; an attempt that fails with any other error, coded or not, *)
(* ends the operation with that error (so no further call follows it);     *)
(* every PutBucketPolicy call of a Create sends the same input: the bucket *)
(* name and the policy rendered for that name.                             *)
(***************************************************************************)
C8_RetryOnlyOnAccessDenied ==
    op = "Create" =>
        /\ pc = "PutBucketPolicyRetry" =>
               lastReply.name = "PutBucketPolicy" /\ AccessDeniedCoded(lastReply.err)
        /\ CallCount("PutBucketPolicy") >= 2 =>
               Answered("PutBucketPolicy", Aws("AccessDenied"))
        /\ \A r \in replies :
               (r.name = "PutBucketPolicy" /\ r.err # Nil /\ ~AccessDeniedCoded(r.err)) =>
                   /\ pc = "done"
                   /\ lastReply = r
                   /\ returned.putBucketPolicyWithRetries = r.err
                   /\ result = [location |-> "", err |-> r.err]
        /\ \A i \in DOMAIN calls : calls[i].name = "PutBucketPolicy" =>
               calls[i].input =
                   [Bucket |-> bucketName,
                    Policy |-> renderPolicy(bucketDetails.Policy.tmpl,
                                            [BucketName |-> bucketName])]

C8_Witness ==
    /\ CallCount("PutBucketPolicy") = 3
    /\ lastReply = [name |-> "PutBucketPolicy", err |-> Aws("InternalError")]
    /\ pc = "done"
    /\ \E i \in DOMAIN putPolicyInput.Policy : putPolicyInput.Policy[i] = bucketName

(***************************************************************************)
(* C9 as stated: a GetPublicAccessBlock probe that fails with anything but *)
(* the code NoSuchPublicAccessBlockConfiguration, an error without a code  *)
(* included, ends the operation: checkDeletePublicAccessBlock and Create   *)
(* return an error.                                                        *)
(***************************************************************************)
C9_ProbeFailureIsFatal ==
    \A r \in replies :
        (r.name = "GetPublicAccessBlock" /\ r.err # Nil /\ ~ConfirmsDeletion(r.err)) =>
            /\ pc = "done"
            /\ returned.checkDeletePublicAccessBlock \notin {Nil, Pending}
            /\ result.err # Nil

(***************************************************************************)
(* C10: a Delete with deleteObjects whose backend steps answer either with *)
(* success or with "no such bucket" (the NoSuchBucket code itself, or a    *)
(* batch error with exactly one cause whose error is NoSuchBucket), at     *)
(* least one of them with the latter, does not crash, goes on to           *)
(* DeleteBucket after the bulk deletion, and returns no error.             *)
(***************************************************************************)
NoSuchBucketShape(e) ==
    \/ e = Aws("NoSuchBucket")
    \/ e.kind = "batch" /\ Len(e.causes) = 1 /\ e.causes[1] = Aws("NoSuchBucket")
BucketReportedMissing ==
    /\ op = "Delete" /\ deleteObjects
    /\ \A r \in replies : r.err = Nil \/ NoSuchBucketShape(r.err)
    /\ \E r \in replies : NoSuchBucketShape(r.err)

C10_DeleteOfMissingBucketSucceeds ==
    BucketReportedMissing =>
        /\ pc \in {"DeleteBucket", "done"}
        /\ pc = "done" => Issued("DeleteBucket") /\ result.err = Nil

C10_Witness ==
    /\ pc = "done"
    /\ deleteObjects
    /\ replies = {[name |-> "BatchDelete", err |-> Batch(<<Aws("NoSuchBucket")>>)],
                  [name |-> "DeleteBucket", err |-> Aws("NoSuchBucket")]}
    /\ result.err = Nil

(***************************************************************************)
(* C11: a Delete whose bulk deletion of the objects answers with a batch   *)
(* error holding two or more causes returns that error, whatever the       *)
(* causes are, and does not go on to DeleteBucket.                         *)
(***************************************************************************)
ManyCauseBatch(e) == e.kind = "batch" /\ Len(e.causes) >= 2

C11_ManyCausesIsFailure ==
    op = "Delete" =>
        \A r \in replies :
            (r.name = "BatchDelete" /\ ManyCauseBatch(r.err)) =>
                /\ pc = "done"
                /\ result.err = r.err
                /\ ~Issued("DeleteBucket")

C11_Witness ==
    /\ op = "Delete"
    /\ pc = "done"
    /\ Answered("BatchDelete", Batch(<<Aws("NoSuchBucket"), Aws("NoSuchBucket")>>))
    /\ result.err # Nil

(***************************************************************************)
(* C12 as stated: with deleteObjects, DeleteBucket is issued only after    *)
(* the bulk deletion answered with success or with an ignorable "no such   *)
(* bucket" error (the code NoSuchBucket, possibly wrapped as the single    *)
(* cause of batch errors); after any other error of the bulk deletion      *)
(* Delete returns that error and DeleteBucket is never issued.             *)
(***************************************************************************)
RECURSIVE IgnorableNotFound(_)
IgnorableNotFound(e) ==
    \/ e = Aws("NoSuchBucket")
    \/ e.kind = "batch" /\ Len(e.causes) = 1 /\ IgnorableNotFound(e.causes[1])

C12_DeleteBucketOnlyAfterContents ==
    (op = "Delete" /\ deleteObjects) =>
        /\ Issued("DeleteBucket") =>
               /\ calls[1].name = "BatchDelete"
               /\ \E r \in replies :
                      r.name = "BatchDelete" /\ (r.err = Nil \/ IgnorableNotFound(r.err))
        /\ \A r \in replies :
               (r.name = "BatchDelete" /\ r.err # Nil /\ ~IgnorableNotFound(r.err)) =>
                   /\ pc = "done"
                   /\ result.err = r.err
                   /\ ~Issued("DeleteBucket")

(***************************************************************************)
(* C13 as stated: a Create that has returned has returned the location     *)
(* reported by CreateBucket and no error if every step succeeded (a poll   *)
(* that ran out of attempts counts as a success), and an empty string and  *)
(* an error otherwise.  A step succeeded when its input was well formed    *)
(* and its call, or the last of its retried calls, was answered without    *)
(* error; a probe answer other than success or                             *)
(* NoSuchPublicAccessBlockConfiguration is a failure of the poll.          *)
(***************************************************************************)
EncryptionStepSucceeded ==
    EncryptionGiven =>
        encryptionParses(bucketDetails.Encryption) /\ Answered("PutBucketEncryption", Nil)
ProbesSucceeded(ok(_)) ==
    \A r \in replies : r.name = "GetPublicAccessBlock" => ok(r.err)
ProbeAnswerAccepted(e) == e = Nil \/ ConfirmsDeletion(e)
ReconcilerStepSucceeded(ok(_)) ==
    ~bucketDetails.Policy.empty =>
        /\ bucketDetails.Policy.json = "ok"
        /\ StatementCount <= 1
        /\ PublicReadPolicy =>
               Answered("DeletePublicAccessBlock", Nil) /\ ProbesSucceeded(ok)
PolicyStepSucceeded ==
    ~bucketDetails.Policy.empty =>
        /\ templateParses(bucketDetails.Policy.tmpl)
        /\ templateExecutes(bucketDetails.Policy.tmpl)
        /\ lastReply = [name |-> "PutBucketPolicy", err |-> Nil]
EveryStepSucceeded(ok(_)) ==
    /\ Answered("CreateBucket", Nil)
    /\ Answered("PutBucketTagging", Nil)
    /\ EncryptionStepSucceeded
    /\ ReconcilerStepSucceeded(ok)
    /\ PolicyStepSucceeded
CreateResultMatches(ok(_)) ==
    (op = "Create" /\ pc = "done") =>
        IF EveryStepSucceeded(ok)
        THEN result = [location |-> StringValue(location), err |-> Nil]
        ELSE result.location = "" /\ result.err \notin {Nil, Pending}

C13_LocationExactlyOnSuccess == CreateResultMatches(ProbeAnswerAccepted)

(***************************************************************************)
(* C14: a Create issues only the calls of its own steps, never             *)
(* DeleteBucket, the bulk deletion or any other compensating call: when it *)
(* returns an error, the calls that succeeded before have not been undone. *)
(***************************************************************************)
CreateCallNames ==
    {"CreateBucket", "PutBucketTagging", "PutBucketEncryption",
     "DeletePublicAccessBlock", "GetPublicAccessBlock", "PutBucketPolicy"}

C14_NoRollback ==
    op = "Create" =>
        /\ \A i \in DOMAIN calls : calls[i].name \in CreateCallNames
        /\ \A r \in replies : r.name \in CreateCallNames
        /\ (pc = "done" /\ result.err # Nil) =>
               \A n \in CreateCallNames \ {"GetPublicAccessBlock"} :
                   Answered(n, Nil) => CallCount(n) >= 1 /\ ~Issued("DeleteBucket")

C14_Witness ==
    /\ op = "Create"
    /\ pc = "done"
    /\ result.err # Nil
    /\ Answered("CreateBucket", Nil)
    /\ Answered("PutBucketTagging", Nil)
    /\ Answered("PutBucketEncryption", Nil)
    /\ Answered("DeletePublicAccessBlock", Nil)
    /\ Issued("PutBucketPolicy")

(***************************************************************************)
(* C15: a Create with an empty Policy issues no DeletePublicAccessBlock,   *)
(* no GetPublicAccessBlock and no PutBucketPolicy call; once the first     *)
(* steps have succeeded, checkDeletePublicAccessBlock and                  *)
(* putBucketPolicyWithRetries have both returned nil and Create has        *)
(* returned the location without error.                                    *)
(***************************************************************************)
C15_EmptyPolicyIsNoOp ==
    (op = "Create" /\ bucketDetails.Policy.empty) =>
        /\ \A n \in {"DeletePublicAccessBlock", "GetPublicAccessBlock",
                     "PutBucketPolicy"} : ~Issued(n)
        /\ infoLog = <<>>
        /\ FirstStepsSucceeded =>
               /\ pc = "done"
               /\ returned = [checkDeletePublicAccessBlock |-> Nil,
                              putBucketPolicyWithRetries |-> Nil]
               /\ result = [location |-> StringValue(location), err |-> Nil]

C15_Witness ==
    /\ op = "Create"
    /\ bucketDetails.Policy.empty
    /\ pc = "done"
    /\ returned = [checkDeletePublicAccessBlock |-> Nil,
                   putBucketPolicyWithRetries |-> Nil]
    /\ Len(calls) = 3

(***************************************************************************)
(* C16: when GetBucketLocation succeeds and reports no region (a null or   *)
(* an empty LocationConstraint), Describe returns Region "us-east-1" and   *)
(* the FIPS endpoint derived from it.                                      *)
(***************************************************************************)
LookupSucceeded == Answered("GetBucketLocation", Nil)

C16_NoRegionIsUsEast1 ==
    (op = "Describe" /\ pc = "done" /\ LookupSucceeded
        /\ locationConstraint \in {NilString, ""}) =>
        /\ result.err = Nil
        /\ details.Region = "us-east-1"
        /\ details.FIPSEndpoint = "s3-fips.us-east-1.amazonaws.com"

(***************************************************************************)
(* C17: a give-up message is logged only when a retry budget was exhausted *)
(* without success: the poll's message only if no GetPublicAccessBlock     *)
(* probe confirmed the deletion, the policy applier's message only when    *)
(* putBucketPolicyWithRetries returns an error.                            *)
(***************************************************************************)
PollGiveUpLogged ==
    \E i \in DOMAIN infoLog :
        infoLog[i] = PollGiveUpMessage(bucketName, maxRetriesPoll)
PutGiveUpLogged ==
    \E i \in DOMAIN infoLog :
        infoLog[i] = PutGiveUpMessage(bucketName, maxRetriesPut)

C17_GiveUpOnlyWithoutSuccess ==
    op = "Create" =>
        /\ PollGiveUpLogged =>
               \A r \in replies :
                   r.name = "GetPublicAccessBlock" => ~ConfirmsDeletion(r.err)
        /\ PutGiveUpLogged =>
               /\ returned.putBucketPolicyWithRetries \notin {Nil, Pending}
               /\ lastReply.err # Nil

(***************************************************************************)
(* C18: every Create ends with a result, whatever the backend answers, and *)
(* issues at most 26 backend calls in total.                               *)
(***************************************************************************)
C18_CreateTerminatesWithinBudget ==
    /\ [](op = "Create" => Len(calls) <= 26)
    /\ (op = "Create") ~> (pc = "done" /\ result # NoResult)

C18_Witness ==
    /\ op = "Create"
    /\ pc = "done"
    /\ Len(calls) = 26
    /\ CallCount("GetPublicAccessBlock") = maxRetriesPoll + 1
    /\ CallCount("PutBucketPolicy") = maxRetriesPut + 1
    /\ result.err = Aws("AccessDenied")

(***************************************************************************)
(* C19: Delete never crashes, whatever the shape of the backend's failure: *)
(* classifying a batch error with zero causes included, it ends by         *)
(* returning success or an error.                                          *)
(***************************************************************************)
C19_DeleteNeverCrashes ==
    op = "Delete" =>
        /\ pc # "panic"
        /\ \A r \in replies :
               (r.err.kind = "batch" /\ Len(r.err.causes) = 0) =>
                   pc = "done" /\ result.err = r.err

====
